---- MODULE Spec2Model ----
(***************************************************************************)
(* The staging-resolve-load pipeline of pipeline/orchestrate/import.py:    *)
(* the flow orchestrate_pipeline and its tasks, against a Postgres store   *)
(* holding the relations publications and articles.                        *)
(***************************************************************************)
EXTENDS Integers, Sequences, FiniteSets, TLC

\* ---- bounds of the model ----
MaxRows == 3        \* rows of an input file
MaxRuns == 2        \* runs of the flow against the same store
MaxChunk == 2       \* largest chunk size the model configures

\* ---- values ----
NULL == "<NULL>"                       \* SQL NULL / Python None
Names == {"Alpha", "alpha"}            \* publication names of the input files
Cells == Names \cup {NULL}             \* a publication cell of the CSV
PathKinds == {"missing", "directory", "file"}
NoCount == -1                          \* an outcome that carries no count
Retries == 0                           \* retries of a task or of the flow

VARIABLES
    \* the durable store
    publications,          \* set of rows [id, name, created_on, updated_on]
    articles,              \* sequence of rows [url, title, publication_id]
    next_id,               \* source of fresh uuid4 values
    name_unique,           \* whether the store has a unique index on publications.name
    \* configuration
    CHUNK_SIZE,
    \* the flow run
    run, pc, error, failed_stage,
    outcome_inserted,      \* the article count the run's outcome carries
    deadline_expired,      \* timeout_seconds have passed since the run started
    task_retries,          \* retries the running task has used
    path_kind, csv_rows,
    csv_has_publication,   \* whether the file has a column named publication
    \* staging (DuckDB) tasks
    load_task, create_task, duck_articles, duck_publications,
    duck_conn,             \* the DuckDB connection: "none", "open" or "closed"
    \* import_publications_to_postgres
    values, pub_i, publication_mapping, pub_chunks,
    pub_attempts,          \* upsert statements executed in the run
    \* import_articles_to_postgres
    articles_read, articles_for_insert, missing_publications, art_i,
    total_inserted, art_chunks,
    art_attempts,          \* insert statements executed in the run
    \* the store as it was when the run started
    start_publications, start_articles,
    \* the position of the run in a series of completed runs over one file
    \* that began on the empty store (0 when it is in no such series)
    same_file_runs

store == <<publications, articles, next_id>>
staging == <<load_task, create_task, duck_articles, duck_publications, duck_conn>>
resolver == <<values, pub_i, publication_mapping, pub_chunks, pub_attempts>>
loader == <<articles_read, articles_for_insert, missing_publications, art_i,
            total_inserted, art_chunks, art_attempts>>
input == <<path_kind, csv_rows, csv_has_publication>>
history == <<start_publications, start_articles, same_file_runs>>
status == <<pc, error, failed_stage, outcome_inserted>>
config == <<name_unique, CHUNK_SIZE>>
vars == <<store, config, run, status, deadline_expired, task_retries, input,
          staging, resolver, loader, history>>

\* ---- helpers ----
Range(s) == {s[i] : i \in 1..Len(s)}

Min(a, b) == IF a < b THEN a ELSE b

EmptyMap == [n \in {} |-> 0]

\* all sequences over S of length at most n
SeqUpTo(S, n) == UNION {[1..k -> S] : k \in 0..n}

\* all orders in which the elements of S can be returned
Orders(S) == {s \in [1..Cardinality(S) -> S] :
                 \A i, j \in 1..Cardinality(S) : s[i] = s[j] => i = j}

\* variant: a slice of one row whatever the chunk size
SliceOne(s, i, n) == SubSeq(s, i + 1, Min(i + 1, Len(s)))

\* variant: the slice s[i : i + n - 1], one row short
SliceShort(s, i, n) == SubSeq(s, i + 1, Min(i + n, Len(s)) - 1)

\* s[i : i + n] of Python, for a 0-based offset i
Slice(s, i, n) == SubSeq(s, i + 1, Min(i + n, Len(s)))

\* the rows of a CSV file whose publication column holds cells
FileRows(cells) ==
    [i \in 1..Len(cells) |->
        [url |-> i, title |-> "t", subtitle |-> "s", publication |-> cells[i],
         date |-> "d"]]

\* datetime.utcnow() / now(): the clock ticks once per run
Now == run

\* ---- get_file_path ----
Exists(kind) == kind \in {"directory", "file"}
IsFile(kind) == kind = "file"

PathCheckRaises(kind) == ~Exists(kind) /\ ~IsFile(kind)

\* variant: names compared without regard to case
Lower(n) == IF n = "Alpha" THEN "alpha" ELSE n

SelectDistinctNoCase(rows) == {Lower(rows[i].publication) : i \in 1..Len(rows)}

\* ---- create_publications_table: SELECT DISTINCT publication AS name ----
SelectDistinct(rows) == {rows[i].publication : i \in 1..Len(rows)}

\* ---- the upsert statement of import_publications_to_postgres ----
\* variant: a plain insert, which sees no conflict
ExistingNone(pubs, n) == {}

Existing(pubs, n) == {p \in pubs : p.name = n}

HasDuplicates(chunk) == \E i, j \in 1..Len(chunk) : i # j /\ chunk[i] = chunk[j]

\* the statement is rejected by the store: no arbiter index for ON CONFLICT
\* (name), a NULL in the NOT NULL column name, or a row affected twice
UpsertRaises(chunk) ==
    \/ ~name_unique
    \/ NULL \in Range(chunk)
    \/ HasDuplicates(chunk)

FreshId(pubs, chunk, nid, i) ==
    nid + Cardinality({j \in 1..(i - 1) : Existing(pubs, chunk[j]) = {}})

InsertedRows(pubs, chunk, nid, now) ==
    {[id |-> FreshId(pubs, chunk, nid, i), name |-> chunk[i],
      created_on |-> now, updated_on |-> now] :
        i \in {j \in 1..Len(chunk) : Existing(pubs, chunk[j]) = {}}}

\* variant: the conflict clause also resets created_on
UpdatedRowsAll(pubs, chunk, now) ==
    {[p EXCEPT !.updated_on = now, !.created_on = now] :
        p \in {q \in pubs : q.name \in Range(chunk)}}

UpdatedRows(pubs, chunk, now) ==
    {[p EXCEPT !.updated_on = now] : p \in {q \in pubs : q.name \in Range(chunk)}}

\* variant: the relation is replaced by the rows of the statement
UpsertRowsReplace(pubs, chunk, nid, now) ==
    UpdatedRows(pubs, chunk, now) \cup InsertedRows(pubs, chunk, nid, now)

\* INSERT ... ON CONFLICT (name) DO UPDATE SET updated_on = ...
UpsertRows(pubs, chunk, nid, now) ==
    {p \in pubs : p.name \notin Range(chunk)}
        \cup UpdatedRows(pubs, chunk, now)
        \cup InsertedRows(pubs, chunk, nid, now)

\* variant: ON CONFLICT DO NOTHING, which returns the inserted rows only
ReturnedRowsInserted(pubs, chunk, nid, now) == InsertedRows(pubs, chunk, nid, now)

\* ... RETURNING name, id
ReturnedRows(pubs, chunk, nid, now) ==
    UpdatedRows(pubs, chunk, now) \cup InsertedRows(pubs, chunk, nid, now)

\* for row in returned_rows: publication_mapping[row.name] = row.id
BuildMapping(mapping, returned) ==
    [n \in DOMAIN mapping \cup {r.name : r \in returned} |->
        IF \E r \in returned : r.name = n
        THEN (CHOOSE r \in returned : r.name = n).id
        ELSE mapping[n]]

\* ---- the transformation of import_articles_to_postgres ----
Resolvable(mapping, row) == row.publication \in DOMAIN mapping

\* variant: the subtitle is looked up under a key the row does not have
ArticleDictNoSubtitle(mapping, row) ==
    [url |-> row.url, title |-> row.title, subtitle |-> NULL,
     publication_id |-> mapping[row.publication],
     date_published |-> row.date]

ArticleDict(mapping, row) ==
    [url |-> row.url, title |-> row.title, subtitle |-> row.subtitle,
     publication_id |-> mapping[row.publication],
     date_published |-> row.date]

\* variant: the first staged row is skipped as if it were a header
TransformSkipFirst(mapping, rows) ==
    LET rest == IF rows = <<>> THEN <<>> ELSE Tail(rows)
        kept == SelectSeq(rest, LAMBDA row : Resolvable(mapping, row)) IN
    [i \in 1..Len(kept) |-> ArticleDict(mapping, kept[i])]

\* articles_for_insert: the resolvable rows, in staged order
Transform(mapping, rows) ==
    LET kept == SelectSeq(rows, LAMBDA row : Resolvable(mapping, row)) IN
    [i \in 1..Len(kept) |-> ArticleDict(mapping, kept[i])]

\* missing_publications
Missing(mapping, rows) ==
    {rows[i].publication : i \in {j \in 1..Len(rows) : ~Resolvable(mapping, rows[j])}}

\* the insert is rejected by the store: a publication_id without a row
InsertRaises(pubs, chunk) ==
    \E i \in 1..Len(chunk) : chunk[i].publication_id \notin {p.id : p \in pubs}

\* ---- async with session.begin(): one transaction per chunk ----
\* variant: one transaction around the whole loop
PublicationsAfterRollback(current, at_start) == at_start

\* what a failing chunk leaves in a relation: its own transaction is rolled
\* back, the transactions of the chunks before it were committed at block exit
PublicationsAfterAbort(current, at_start) == current

ArticlesAfterAbort(current, at_start) == current

\* variant: rows whose url is already stored are skipped
InsertRowsNew(arts, chunk) ==
    arts \o SelectSeq(chunk, LAMBDA r : \A i \in 1..Len(arts) : arts[i].url # r.url)

\* insert(Article).values(chunk): a plain insert
InsertRows(arts, chunk) == arts \o chunk

\* ---- the state after construction ----
Init ==
    /\ publications = {}
    /\ articles = <<>>
    /\ next_id = 1
    /\ name_unique \in BOOLEAN
    /\ CHUNK_SIZE \in 1..MaxChunk
    /\ run = 0
    /\ pc = "idle"
    /\ error = "none"
    /\ failed_stage = "none"
    /\ outcome_inserted = NoCount
    /\ deadline_expired = FALSE
    /\ task_retries = 0
    /\ path_kind = "file"
    /\ csv_rows = <<>>
    /\ csv_has_publication = TRUE
    /\ load_task = "none"
    /\ create_task = "none"
    /\ duck_articles = <<>>
    /\ duck_publications = <<>>
    /\ duck_conn = "none"
    /\ values = <<>>
    /\ pub_i = 0
    /\ publication_mapping = EmptyMap
    /\ pub_chunks = <<>>
    /\ pub_attempts = 0
    /\ articles_read = FALSE
    /\ articles_for_insert = <<>>
    /\ missing_publications = {}
    /\ art_i = 0
    /\ total_inserted = 0
    /\ art_chunks = <<>>
    /\ art_attempts = 0
    /\ start_publications = {}
    /\ start_articles = <<>>
    /\ same_file_runs = 0

\* an exception leaves the flow: the run fails, and nothing carries a count
Raise(stage, e) ==
    /\ pc' = "failed"
    /\ error' = e
    /\ failed_stage' = stage
    /\ outcome_inserted' = NoCount

\* the flow moves on to the next step
Goto(step) ==
    /\ pc' = step
    /\ UNCHANGED <<error, failed_stage, outcome_inserted>>

\* the steps of a run that has not ended
InProgress == {"get_file_path", "staging", "import_publications_begin",
               "import_publications", "import_articles_begin", "import_articles"}

\* the steps at which the flow coroutine awaits
AwaitPoints == {"import_publications_begin", "import_publications",
                "import_articles_begin", "import_articles"}

\* the position of a new run over rows in a series of runs over one file
NextSameFileRuns(kind, has_publication, rows) ==
    IF run = 0
    THEN 1
    ELSE IF /\ same_file_runs > 0
            /\ pc = "completed"
            /\ kind = path_kind
            /\ has_publication = csv_has_publication
            /\ rows = csv_rows
         THEN same_file_runs + 1
         ELSE 0

\* orchestrate_pipeline is called with a path
StartRun ==
    /\ pc \in {"idle", "completed", "failed", "timed_out"}
    /\ run < MaxRuns
    /\ \E kind \in PathKinds, has_publication \in BOOLEAN,
          cells \in SeqUpTo(Cells, MaxRows) :
          /\ kind # "file" => has_publication
          /\ (kind # "file" \/ ~has_publication) => cells = <<>>
          /\ path_kind' = kind
          /\ csv_has_publication' = has_publication
          /\ csv_rows' = FileRows(cells)
          /\ same_file_runs' =
                NextSameFileRuns(kind, has_publication, FileRows(cells))
    /\ run' = run + 1
    /\ pc' = "get_file_path"
    /\ error' = "none"
    /\ failed_stage' = "none"
    /\ outcome_inserted' = NoCount
    /\ deadline_expired' = FALSE
    /\ task_retries' = 0
    /\ load_task' = "none"
    /\ create_task' = "none"
    /\ duck_articles' = <<>>
    /\ duck_publications' = <<>>
    /\ duck_conn' = "none"
    /\ values' = <<>>
    /\ pub_i' = 0
    /\ publication_mapping' = EmptyMap
    /\ pub_chunks' = <<>>
    /\ pub_attempts' = 0
    /\ articles_read' = FALSE
    /\ articles_for_insert' = <<>>
    /\ missing_publications' = {}
    /\ art_i' = 0
    /\ total_inserted' = 0
    /\ art_chunks' = <<>>
    /\ art_attempts' = 0
    /\ start_publications' = publications
    /\ start_articles' = articles
    /\ UNCHANGED <<store, config>>

\* @flow(timeout_seconds=30): the deadline of the run passes
DeadlineExpires ==
    /\ pc \in InProgress
    /\ ~deadline_expired
    /\ deadline_expired' = TRUE
    /\ UNCHANGED <<store, config, run, status, task_retries, input, staging,
                   resolver, loader, history>>

\* the cancellation of the flow coroutine, delivered at an await
Timeout ==
    /\ deadline_expired
    /\ pc \in AwaitPoints
    /\ pc' = "timed_out"
    /\ error' = "TimeoutError"
    /\ failed_stage' = "orchestrate_pipeline"
    /\ outcome_inserted' = NoCount
    /\ UNCHANGED <<store, config, run, deadline_expired, task_retries, input,
                   staging, resolver, loader, history>>

\* get_file_path, then the two submits of the flow
GetFilePath ==
    /\ pc = "get_file_path"
    /\ IF PathCheckRaises(path_kind)
       THEN /\ Raise("get_file_path", "FileNotFoundError")
            /\ UNCHANGED staging
       ELSE /\ Goto("staging")
            /\ load_task' = "pending"
            /\ create_task' = "pending"
            /\ UNCHANGED <<duck_articles, duck_publications, duck_conn>>
    /\ UNCHANGED <<store, config, run, deadline_expired, task_retries, input,
                   resolver, loader, history>>

\* the task load_csv_into_duckdb, run by the task runner
LoadCsvIntoDuckdb ==
    /\ load_task = "pending"
    /\ IF IsFile(path_kind)
       THEN /\ duck_conn' = "open"
            /\ duck_articles' = csv_rows
            /\ load_task' = "completed"
       ELSE /\ load_task' = "failed"
            /\ UNCHANGED <<duck_articles, duck_conn>>
    /\ UNCHANGED <<store, config, run, status, deadline_expired, task_retries,
                   input, create_task, duck_publications, resolver, loader,
                   history>>

\* the task create_publications_table, which takes the future of the load
CreatePublicationsTable ==
    /\ create_task = "pending"
    /\ load_task # "pending"
    /\ IF load_task = "completed" /\ csv_has_publication
       THEN /\ duck_publications' \in Orders(SelectDistinct(duck_articles))
            /\ create_task' = "completed"
       ELSE /\ create_task' = "failed"
            /\ UNCHANGED duck_publications
    /\ UNCHANGED <<store, config, run, status, deadline_expired, task_retries,
                   input, load_task, duck_articles, duck_conn, resolver, loader,
                   history>>

\* variant: the flow asks for the result of the load only
BarrierLoadOnly == load_task # "pending"

\* wait([ddb_connection, create_publications_table.submit(ddb_connection)])
BarrierPassed == load_task # "pending" /\ create_task # "pending"

\* wait([...]) and ddb_connection.result()
WaitAndResult ==
    /\ pc = "staging"
    /\ BarrierPassed
    /\ IF load_task = "failed"
       THEN Raise("load_csv_into_duckdb", "DuckDBError")
       ELSE Goto("import_publications_begin")
    /\ UNCHANGED <<store, config, run, deadline_expired, task_retries, input,
                   staging, resolver, loader, history>>

\* import_publications_to_postgres, up to the chunk loop
ImportPublicationsBegin ==
    /\ pc = "import_publications_begin"
    /\ IF create_task = "completed"
       THEN /\ values' = duck_publications
            /\ pub_i' = 0
            /\ publication_mapping' = EmptyMap
            /\ Goto("import_publications")
       ELSE \* SELECT name FROM publications: there is no such table
            /\ Raise("import_publications_to_postgres", "DuckDBError")
            /\ UNCHANGED <<values, pub_i, publication_mapping>>
    /\ UNCHANGED <<store, config, run, deadline_expired, task_retries, input,
                   staging, pub_chunks, pub_attempts, loader, history>>

\* variant: the tasks are declared with one retry
RetryOnce(begin, stage, e) ==
    IF task_retries < 1
    THEN /\ Goto(begin)
         /\ task_retries' = task_retries + 1
    ELSE /\ Raise(stage, e)
         /\ UNCHANGED task_retries

\* a task whose function raised: run again while retries are left
RetryOrRaise(begin, stage, e) ==
    IF task_retries < Retries
    THEN /\ Goto(begin)
         /\ task_retries' = task_retries + 1
    ELSE /\ Raise(stage, e)
         /\ UNCHANGED task_retries

\* one iteration of the chunk loop: the upsert and its transaction
UpsertChunk ==
    /\ pc = "import_publications"
    /\ ~deadline_expired
    /\ pub_i < Len(values)
    /\ pub_attempts' = pub_attempts + 1
    /\ LET chunk == Slice(values, pub_i, CHUNK_SIZE) IN
       \E db_ok \in BOOLEAN :
          IF db_ok /\ ~UpsertRaises(chunk)
          THEN /\ publications' = UpsertRows(publications, chunk, next_id, Now)
               /\ next_id' = next_id
                     + Cardinality(InsertedRows(publications, chunk, next_id, Now))
               /\ publication_mapping' =
                     BuildMapping(publication_mapping,
                                  ReturnedRows(publications, chunk, next_id, Now))
               /\ pub_chunks' = Append(pub_chunks, chunk)
               /\ pub_i' = pub_i + CHUNK_SIZE
               /\ UNCHANGED <<status, task_retries>>
          ELSE /\ RetryOrRaise("import_publications_begin",
                               "import_publications_to_postgres", "DBAPIError")
               /\ publications' =
                     PublicationsAfterAbort(publications, start_publications)
               /\ UNCHANGED <<next_id, publication_mapping, pub_chunks, pub_i>>
    /\ UNCHANGED <<articles, config, run, deadline_expired, input, staging,
                   values, loader, history>>

\* variant: the return sits inside the loop
ResolverFinishedEarly == pub_i >= Len(values) \/ pub_i >= CHUNK_SIZE

\* the loop is exhausted: session.commit() and return publication_mapping
ResolverFinished == pub_i >= Len(values)

ImportPublicationsReturn ==
    /\ pc = "import_publications"
    /\ ResolverFinished
    /\ Goto("import_articles_begin")
    /\ task_retries' = 0
    /\ UNCHANGED <<store, config, run, deadline_expired, input, staging,
                   resolver, loader, history>>

\* variant: only a missing mapping is refused
MappingIsNone(mapping) == FALSE

\* if not publication_mapping
MappingIsEmpty(mapping) == DOMAIN mapping = {}

\* import_articles_to_postgres, up to the chunk loop
ImportArticlesBegin ==
    /\ pc = "import_articles_begin"
    /\ IF MappingIsEmpty(publication_mapping)
       THEN /\ Raise("import_articles_to_postgres", "ValueError")
            /\ UNCHANGED <<articles_read, articles_for_insert,
                           missing_publications, art_i, total_inserted>>
       ELSE /\ articles_read' = TRUE
            /\ articles_for_insert' = Transform(publication_mapping, duck_articles)
            /\ missing_publications' = Missing(publication_mapping, duck_articles)
            /\ art_i' = 0
            /\ total_inserted' = 0
            /\ Goto("import_articles")
    /\ UNCHANGED <<store, config, run, deadline_expired, task_retries, input,
                   staging, resolver, art_chunks, art_attempts, history>>

\* one iteration of the chunk loop: the insert and its transaction
InsertChunk ==
    /\ pc = "import_articles"
    /\ ~deadline_expired
    /\ art_i < Len(articles_for_insert)
    /\ art_attempts' = art_attempts + 1
    /\ LET chunk == Slice(articles_for_insert, art_i, CHUNK_SIZE) IN
       \E db_ok \in BOOLEAN :
          IF db_ok /\ ~InsertRaises(publications, chunk)
          THEN /\ articles' = InsertRows(articles, chunk)
               /\ total_inserted' = total_inserted + Len(chunk)
               /\ art_chunks' = Append(art_chunks, chunk)
               /\ art_i' = art_i + CHUNK_SIZE
               /\ UNCHANGED <<status, task_retries>>
          ELSE /\ RetryOrRaise("import_articles_begin",
                               "import_articles_to_postgres", "DBAPIError")
               /\ articles' = ArticlesAfterAbort(articles, start_articles)
               /\ UNCHANGED <<total_inserted, art_chunks, art_i>>
    /\ UNCHANGED <<publications, next_id, config, run, deadline_expired, input,
                   staging, resolver, articles_read, articles_for_insert,
                   missing_publications, history>>

\* the loop is exhausted: return total_inserted; the flow drops the value
\* and returns Completed()
ImportArticlesReturn ==
    /\ pc = "import_articles"
    /\ art_i >= Len(articles_for_insert)
    /\ pc' = "completed"
    /\ outcome_inserted' = NoCount
    /\ UNCHANGED <<store, config, run, error, failed_stage, deadline_expired,
                   task_retries, input, staging, resolver, loader, history>>

Next ==
    \/ StartRun
    \/ DeadlineExpires
    \/ Timeout
    \/ GetFilePath
    \/ LoadCsvIntoDuckdb
    \/ CreatePublicationsTable
    \/ WaitAndResult
    \/ ImportPublicationsBegin
    \/ UpsertChunk
    \/ ImportPublicationsReturn
    \/ ImportArticlesBegin
    \/ InsertChunk
    \/ ImportArticlesReturn

Spec == Init /\ [][Next]_vars

(***************************************************************************)
(* Properties                                                              *)
(***************************************************************************)
Ids(pubs) == {p.id : p \in pubs}
NamesOf(pubs) == {p.name : p \in pubs}

RECURSIVE Flatten(_)
Flatten(chunks) ==
    IF chunks = <<>> THEN <<>> ELSE Head(chunks) \o Flatten(Tail(chunks))

CeilDiv(n, c) == (n + c - 1) \div c

\* the run has got past the resolver: the article stage was entered
ArticleStageEntered ==
    \/ pc \in {"import_articles_begin", "import_articles", "completed"}
    \/ pc = "failed" /\ failed_stage = "import_articles_to_postgres"

\* the distinct publication cells of the input file, compared exactly
FileNames == {csv_rows[i].publication : i \in 1..Len(csv_rows)}

\* C1: whenever the article stage of a run has been entered (so before any
\* article transaction begins), the resolver has gone through every chunk of
\* the distinct names, each name is committed in publications, and the
\* mapping holds exactly one entry per distinct name, with the committed id.
C1_ResolverCompleteBeforeArticles ==
    ArticleStageEntered =>
        /\ pub_i >= Len(values)
        /\ Flatten(pub_chunks) = values
        /\ Range(values) = FileNames
        /\ DOMAIN publication_mapping = FileNames
        /\ \A n \in FileNames :
              \E p \in publications : p.name = n /\ p.id = publication_mapping[n]

C1_Witness ==
    /\ pc = "import_articles"
    /\ Len(pub_chunks) >= 2
    /\ art_chunks # <<>>

\* C2: every article row of the store carries a publication_id that is the
\* id of a row of publications, in every reachable state.
C2_ReferentialIntegrity ==
    \A i \in 1..Len(articles) : articles[i].publication_id \in Ids(publications)

C2_Witness ==
    /\ run = 2
    /\ Len(articles) > Len(start_articles)
    /\ start_articles # <<>>
    /\ Cardinality(publications) > Cardinality(start_publications)
    /\ start_publications # {}

\* C3: publications never holds two rows with the same name, whatever runs
\* (completed or aborted) have gone before.
C3_NameUnique ==
    \A p, q \in publications : p.name = q.name => p = q

C3_Witness ==
    /\ run = 2
    /\ pc \in {"completed", "failed"}
    /\ pub_chunks # <<>>
    /\ \E n \in Range(Flatten(pub_chunks)) : n \in NamesOf(start_publications)

\* C4: after a completed run that started from an empty store, the names in
\* publications are the distinct names of the input file, compared as exact
\* strings, and there are as many of them.
C4_DistinctNames ==
    (pc = "completed" /\ start_publications = {} /\ start_articles = <<>>) =>
        /\ NamesOf(publications) = FileNames
        /\ Cardinality(NamesOf(publications)) = Cardinality(FileNames)
        /\ Cardinality(publications) = Cardinality(FileNames)

C4_Witness ==
    /\ pc = "completed"
    /\ start_publications = {}
    /\ FileNames = {"Alpha", "alpha"}
    /\ Len(csv_rows) = 3

\* C5: once the resolver has returned, every publication row that was in
\* the store when the run started is still there with the same id, name and
\* created_on, the mapping gives each such name its old id, and when every
\* resolved name was already present no row has been added.
C5_IdempotentUpsert ==
    ArticleStageEntered =>
        /\ \A p \in start_publications :
              /\ \E q \in publications :
                    q.id = p.id /\ q.name = p.name /\ q.created_on = p.created_on
              /\ p.name \in DOMAIN publication_mapping =>
                    publication_mapping[p.name] = p.id
        /\ Range(values) \subseteq NamesOf(start_publications) =>
              Cardinality(publications) = Cardinality(start_publications)

C5_Witness ==
    /\ run = 2
    /\ ArticleStageEntered
    /\ Cardinality(start_publications) = 2
    /\ Range(values) = NamesOf(start_publications)
    /\ \A p \in publications : p.updated_on = 2 /\ p.created_on = 1

\* C6: in a completed run, the inserted total plus the number of staged rows
\* whose publication is among the missing names is the number of staged rows,
\* and the total is the number of rows the run added to articles.
C6_Completeness ==
    pc = "completed" =>
        /\ total_inserted
             + Cardinality({i \in 1..Len(duck_articles) :
                   duck_articles[i].publication \in missing_publications})
             = Len(duck_articles)
        /\ total_inserted = Len(articles) - Len(start_articles)

C6_Witness ==
    /\ pc = "completed"
    /\ Len(duck_articles) = 3
    /\ total_inserted = 3

\* the chunks of a stage that met no failure, for n rows and chunk size c
ChunksExact(chunks, rows, c) ==
    LET n == Len(rows) IN
    /\ Len(chunks) = CeilDiv(n, c)
    /\ \A k \in 1..(Len(chunks) - 1) : Len(chunks[k]) = c
    /\ chunks # <<>> =>
          Len(chunks[Len(chunks)]) = IF n % c = 0 THEN c ELSE n % c
    /\ Flatten(chunks) = rows

\* C7: a write stage that went through without a failing chunk made
\* ceil(N/C) transactions, each but the last of C rows, the last of N mod C
\* rows (C when C divides N), and the chunks in order are the input rows.
C7_ChunkBoundaries ==
    /\ ArticleStageEntered => ChunksExact(pub_chunks, values, CHUNK_SIZE)
    /\ pc = "completed" =>
          ChunksExact(art_chunks, articles_for_insert, CHUNK_SIZE)

C7_Witness ==
    /\ pc = "completed"
    /\ CHUNK_SIZE = 2
    /\ Len(art_chunks) = 2
    /\ Len(art_chunks[2]) = 1
    /\ Len(pub_chunks) = 1
    /\ Len(pub_chunks[1]) = 2

\* C8: when a chunk's write has failed, the run has ended with that error,
\* and the rows of every chunk committed earlier in the run are in the store.
C8_PartialSuccess ==
    (pc = "failed" /\ error = "DBAPIError") =>
        /\ failed_stage \in {"import_publications_to_postgres",
                             "import_articles_to_postgres"}
        /\ \A n \in Range(Flatten(pub_chunks)) :
              \E p \in publications : p.name = n /\ p.id = publication_mapping[n]
        /\ articles = start_articles \o Flatten(art_chunks)

C8_Witness ==
    /\ pc = "failed"
    /\ failed_stage = "import_publications_to_postgres"
    /\ CHUNK_SIZE = 1
    /\ Len(values) = 3
    /\ Len(pub_chunks) = 1
    /\ start_publications = {}
    /\ Cardinality(publications) = 1

\* C9: a run given a path that is not an existing regular file ends in
\* get_file_path with FileNotFoundError, before the staging load is started.
C9_NonFileRejected ==
    (path_kind # "file" /\ pc \notin {"idle", "get_file_path"}) =>
        /\ pc = "failed"
        /\ error = "FileNotFoundError"
        /\ failed_stage = "get_file_path"
        /\ load_task = "none"

\* C10: an article stage entered with an empty mapping has failed with
\* ValueError without reading the staged rows, and the run has made no
\* article transaction.
C10_EmptyMappingRefused ==
    (ArticleStageEntered /\ pc # "import_articles_begin"
        /\ DOMAIN publication_mapping = {}) =>
        /\ pc = "failed"
        /\ error = "ValueError"
        /\ ~articles_read
        /\ art_chunks = <<>>
        /\ articles = start_articles

C10_Witness ==
    /\ pc = "failed"
    /\ error = "ValueError"
    /\ path_kind = "file"
    /\ csv_rows = <<>>
    /\ DOMAIN publication_mapping = {}

\* the article rows the run has committed
CommittedByRun == Len(articles) - Len(start_articles)

\* C11: when an article chunk's transaction has failed, the outcome of the
\* run carries the number of article rows the run committed before it.
C11_OutcomeCarriesCount ==
    (pc = "failed" /\ failed_stage = "import_articles_to_postgres"
        /\ error = "DBAPIError") =>
        outcome_inserted = CommittedByRun

\* the run has ended
RunEnded == pc \in {"completed", "failed", "timed_out"}

\* C12: a run whose deadline passed while a stage was in progress ends
\* timed out, with TimeoutError, and not completed or failed otherwise.
C12_DeadlineEndsRun ==
    (deadline_expired /\ RunEnded) =>
        /\ pc = "timed_out"
        /\ error = "TimeoutError"

\* C13: a completed run has finished every stage successfully, and once the
\* build of the staging publications table has failed the run has failed in
\* that stage, with no later stage started.
C13_StageFailureIsOutcome ==
    /\ pc = "completed" => load_task = "completed" /\ create_task = "completed"
    /\ (load_task = "completed" /\ create_task = "failed" /\ pc # "staging") =>
          /\ pc = "failed"
          /\ failed_stage = "create_publications_table"

\* C14: a run that acquired the staging connection and has ended has
\* released it.
C14_StagingReleased ==
    (RunEnded /\ load_task = "completed") => duck_conn = "closed"

\* C15: after k completed runs over one file, begun on the empty store,
\* publications holds one row per distinct name of the file and articles
\* holds k times the rows of the file; and a step of the article stage
\* leaves publications as it is and only appends to articles.
C15_Counts ==
    (pc = "completed" /\ same_file_runs > 0) =>
        /\ Cardinality(publications) = Cardinality(FileNames)
        /\ Len(articles) = same_file_runs * Len(csv_rows)

C15_ArticleStageAppends ==
    pc \in {"import_articles_begin", "import_articles"} =>
        /\ publications' = publications
        /\ Len(articles') >= Len(articles)
        /\ SubSeq(articles', 1, Len(articles)) = articles

C15_RerunDuplicatesArticles ==
    [](C15_Counts) /\ [][C15_ArticleStageAppends]_vars

C15_Witness ==
    /\ pc = "completed"
    /\ same_file_runs = 2
    /\ Len(csv_rows) = 3
    /\ Cardinality(FileNames) = 2
    /\ Len(articles) = 6

\* the resolver has read the staging publications table
ResolverHasRead ==
    pc \in {"import_publications", "import_articles_begin", "import_articles",
            "completed"}

\* C16: the flow is past the staging step only when the load has completed
\* and the build of the publications table has finished, and what the
\* resolver has read is the distinct names of the fully loaded rows.
C16_JoinBarrier ==
    /\ pc \in AwaitPoints =>
          /\ load_task = "completed"
          /\ create_task \in {"completed", "failed"}
          /\ duck_articles = csv_rows
    /\ ResolverHasRead =>
          /\ create_task = "completed"
          /\ Range(values) = FileNames
          /\ Len(values) = Cardinality(FileNames)

C16_Witness ==
    /\ pc = "import_publications"
    /\ create_task = "completed"
    /\ Len(values) = 2
    /\ Len(csv_rows) = 3

(***************************************************************************)
(* import_articles_to_postgres called on its own, with any staged rows and *)
(* any non-empty mapping into the ids of the stored publications           *)
(***************************************************************************)
StoredPublications ==
    {[id |-> 1, name |-> "Alpha", created_on |-> 0, updated_on |-> 0],
     [id |-> 2, name |-> "alpha", created_on |-> 0, updated_on |-> 0]}

Mappings == UNION {[D -> Ids(StoredPublications)] : D \in (SUBSET Names) \ {{}}}

StagedRows ==
    UNION {{[i \in 1..k |->
               [url |-> i, title |-> "t", subtitle |-> subtitles[i],
                publication |-> cells[i], date |-> "d"]] :
              cells \in [1..k -> Cells], subtitles \in [1..k -> {NULL, "s"}]} :
           k \in 0..MaxRows}

InitTransform ==
    /\ publications = StoredPublications
    /\ articles = <<>>
    /\ next_id = 3
    /\ name_unique = TRUE
    /\ CHUNK_SIZE \in 1..MaxChunk
    /\ run = 1
    /\ pc = "import_articles_begin"
    /\ error = "none"
    /\ failed_stage = "none"
    /\ outcome_inserted = NoCount
    /\ deadline_expired = FALSE
    /\ task_retries = 0
    /\ path_kind = "file"
    /\ duck_articles \in StagedRows
    /\ csv_rows = duck_articles
    /\ csv_has_publication = TRUE
    /\ load_task = "completed"
    /\ create_task = "completed"
    /\ duck_publications = <<>>
    /\ duck_conn = "open"
    /\ values = <<>>
    /\ pub_i = 0
    /\ publication_mapping \in Mappings
    /\ pub_chunks = <<>>
    /\ pub_attempts = 0
    /\ articles_read = FALSE
    /\ articles_for_insert = <<>>
    /\ missing_publications = {}
    /\ art_i = 0
    /\ total_inserted = 0
    /\ art_chunks = <<>>
    /\ art_attempts = 0
    /\ start_publications = StoredPublications
    /\ start_articles = <<>>
    /\ same_file_runs = 0

NextTransform ==
    \/ ImportArticlesBegin
    \/ InsertChunk
    \/ ImportArticlesReturn

TransformSpec == InitTransform /\ [][NextTransform]_vars

\* the indices of the staged rows whose publication is a key of the mapping
ResolvedIndices ==
    {i \in 1..Len(duck_articles) :
        duck_articles[i].publication \in DOMAIN publication_mapping}

\* the position of staged row i among the rows emitted
Rank(i) == Cardinality({j \in ResolvedIndices : j <= i})

\* C17: once the transformer has run, each staged row whose name is a key of
\* the mapping has exactly one emitted row, in staged order, with the mapped
\* id and the staged url, title, subtitle and date; the rows whose name is
\* absent are not emitted and their names are the missing set; an absent
\* name does not fail the run.
C17_Transformer ==
    articles_read =>
        /\ Len(articles_for_insert) = Cardinality(ResolvedIndices)
        /\ \A i \in ResolvedIndices :
              /\ articles_for_insert[Rank(i)].publication_id =
                    publication_mapping[duck_articles[i].publication]
              /\ articles_for_insert[Rank(i)].url = duck_articles[i].url
              /\ articles_for_insert[Rank(i)].title = duck_articles[i].title
              /\ articles_for_insert[Rank(i)].subtitle = duck_articles[i].subtitle
              /\ articles_for_insert[Rank(i)].date_published = duck_articles[i].date
        /\ missing_publications =
              {duck_articles[i].publication :
                  i \in (1..Len(duck_articles)) \ ResolvedIndices}
        /\ pc = "failed" => error = "DBAPIError"

C17_Witness ==
    /\ pc = "completed"
    /\ articles_read
    /\ Len(duck_articles) = 3
    /\ Len(articles_for_insert) = 2
    /\ missing_publications = {"alpha"}
    /\ articles_for_insert[1].subtitle = NULL
    /\ articles_for_insert[2].subtitle = "s"
    /\ duck_articles[1].publication = "alpha"

\* a chunk's write has failed in the given stage
ChunkFailedIn(stage) ==
    pc = "failed" /\ error = "DBAPIError" /\ failed_stage = stage

C18_NoSecondAttempt ==
    /\ pub_attempts <= Len(pub_chunks) + 1
    /\ art_attempts <= Len(art_chunks) + 1
    /\ (pub_attempts > Len(pub_chunks) \/ art_attempts > Len(art_chunks)) =>
          pc = "failed"
    /\ ChunkFailedIn("import_publications_to_postgres") =>
          /\ pub_attempts = Len(pub_chunks) + 1
          /\ art_attempts = 0
          /\ articles = start_articles
    /\ ChunkFailedIn("import_articles_to_postgres") =>
          art_attempts = Len(art_chunks) + 1

C18_FailedRunWritesNothing ==
    pc = "failed" =>
        \/ pc' = "failed" /\ store' = store /\ pub_attempts' = pub_attempts
              /\ art_attempts' = art_attempts
        \/ run' = run + 1

\* C18: every statement of a run but at most the last has committed its
\* chunk, a failed statement ends the run at once, and a failed run executes
\* no further statement and writes nothing until another run is started.
C18_NoRetry ==
    [](C18_NoSecondAttempt) /\ [][C18_FailedRunWritesNothing]_vars

C18_Witness ==
    /\ ChunkFailedIn("import_publications_to_postgres")
    /\ CHUNK_SIZE = 1
    /\ Len(values) = 3
    /\ Len(pub_chunks) = 1
    /\ pub_attempts = 2

\* the name of the publication row with the given id
NameOfId(id) == (CHOOSE p \in publications : p.id = id).name

\* article rows with the publication id replaced by the publication's name
ByName(arts) ==
    [i \in 1..Len(arts) |->
        [url |-> arts[i].url, title |-> arts[i].title,
         subtitle |-> arts[i].subtitle,
         publication |-> NameOfId(arts[i].publication_id),
         date |-> arts[i].date_published]]

\* C19: what a completed run leaves is fixed by the input file and the store
\* it started on, with no reference to the chunk size: the names of the
\* store before plus the distinct names of the file, the articles of the
\* store before followed by the rows of the file (ids read as names), and a
\* total equal to the number of rows of the file.
C19_ChunkSizeIndependent ==
    pc = "completed" =>
        /\ NamesOf(publications) = NamesOf(start_publications) \cup FileNames
        /\ ByName(articles) = ByName(start_articles) \o csv_rows
        /\ total_inserted = Len(csv_rows)

C19_Witness ==
    /\ pc = "completed"
    /\ run = 2
    /\ CHUNK_SIZE = 1
    /\ Len(csv_rows) = 3
    /\ Len(art_chunks) = 3
    /\ Len(start_articles) = 3
    /\ Cardinality(start_publications) = 1
    /\ Cardinality(publications) = 2

\* the distinct publication cells of the staged rows
StagedNames == {duck_articles[i].publication : i \in 1..Len(duck_articles)}

\* C20: when the resolver has returned, the keys of its mapping are the
\* distinct publication names of the staged rows; the article stage of the
\* run then finds no missing name and drops no row, and a completed run has
\* inserted as many rows as were staged.
C20_NoExclusions ==
    /\ ArticleStageEntered => DOMAIN publication_mapping = StagedNames
    /\ articles_read =>
          /\ missing_publications = {}
          /\ Len(articles_for_insert) = Len(duck_articles)
    /\ pc = "completed" => total_inserted = Len(duck_articles)

C20_Witness ==
    /\ pc = "completed"
    /\ run = 2
    /\ Len(duck_articles) = 3
    /\ StagedNames = {"Alpha", "alpha"}
    /\ StagedNames \subseteq NamesOf(start_publications)
    /\ total_inserted = 3

====
